---------------------------- MODULE Spec2Model ----------------------------
(***************************************************************************)
(* Model of the parallel skeletons of src/code/src/patterns.c: map,        *)
(* reduce, inclusiveScan, exclusiveScan, pack, gather, scatter, farm and   *)
(* the three pipelines.                                                    *)
(*                                                                         *)
(* Arrays are functions over 0..len-1 (the C indexing).  Elements are      *)
(* small integers; the all-zero-bytes element is Zero.  A binary operator  *)
(* callback is a name, applied by Apply.  The element size sizeJob is      *)
(* taken to be sizeof(TYPE), so TYPE* and char*-times-sizeJob indexing     *)
(* address the same element.                                               *)
(***************************************************************************)
EXTENDS Integers, Sequences, FiniteSets, TLC

(* ------------------------------ bounds -------------------------------- *)

\* Longest source array.
MaxN == 4

\* Largest worker count (omp_get_max_threads()).
MaxThreads == 3

\* Elements are 0 .. ValMod-1.
ValMod == 3

\* Longest gather filter.
MaxFilter == 3

\* Longest list of pipeline stages.
MaxStages == 2

(* ----------------------------- elements ------------------------------- *)

\* What memset(dest, 0, sizeJob) and calloc leave in an element.
Zero == 0

\* The content of a caller's destination element the call has not written.
Untouched == -1

\* SIZE_MAX, what nJob - 1 is in size_t arithmetic when nJob = 0 (cut to
\* the largest integer TLC represents).
SizeMax == 2147483647

Values == 0 .. (ValMod - 1)

\* The binary callbacks [ v1 = op (v2, v3) ] the callers pass.  All of them
\* are associative; first, last and firstnz are not commutative; Zero is an
\* identity of add, max and firstnz, a left identity of last, and neither
\* of mul, first and addp1.
Ops == {"add", "mul", "max", "first", "last", "firstnz", "addp1"}

Apply(op, a, b) ==
  CASE op = "add"     -> (a + b) % ValMod
    [] op = "mul"     -> (a * b) % ValMod
    [] op = "max"     -> IF a > b THEN a ELSE b
    [] op = "first"   -> a
    [] op = "last"    -> b
    [] op = "firstnz" -> IF a # Zero THEN a ELSE b
    [] op = "addp1"   -> (a + b + 1) % ValMod

\* All arrays of at most m elements.
Arrays(m) == UNION {[0 .. (k - 1) -> Values] : k \in 0 .. m}

Len0(a) == Cardinality(DOMAIN a)

(* ------------------------------- utils -------------------------------- *)

min(a, b) == IF a < b THEN a ELSE b

\* The tile offset that forgets the extra element of the leftover tiles.
getTileIndexNoExtra(tile, leftOverTiles, tileSize) == tile * tileSize

getTileIndex(tile, leftOverTiles, tileSize) ==
  IF tile = 0 THEN 0
  ELSE IF tile < leftOverTiles
       THEN tile * (tileSize + 1)
       ELSE leftOverTiles * (tileSize + 1) + (tile - leftOverTiles) * tileSize

\* tileSize + (tile < leftOverJobs ? 1 : 0)
tileSizeWithOffset(tile, leftOver, tSize) ==
  tSize + (IF tile < leftOver THEN 1 ELSE 0)

\* nJob - 1 in size_t arithmetic.
SizeSub1(n) == IF n = 0 THEN SizeMax ELSE n - 1

(* ------------------- reduceImpl as a serial function ------------------ *)

\* The inner loop of a tile: cnt times acc = worker(acc, s[lo + i]).
RECURSIVE FoldTile(_, _, _, _, _)
FoldTile(acc, s, lo, cnt, op) ==
  IF cnt = 0 THEN acc
  ELSE FoldTile(Apply(op, acc, s[lo]), s, lo + 1, cnt - 1, op)

\* Phase 2: result = worker(result, phase1reduction[tile]) for tile = k ..
RECURSIVE FoldPartials(_, _, _, _, _)
FoldPartials(acc, p, k, nT, op) ==
  IF k >= nT THEN acc
  ELSE FoldPartials(Apply(op, acc, p[k]), p, k + 1, nT, op)

\* What reduceImpl(dest, &s[lo], cnt, sizeJob, worker, nThr) leaves in dest
\* when it runs on one thread (nThr = 1 is how scan calls it).
reduceImplValue(s, lo, cnt, op, nThr) ==
  IF cnt = 0 THEN Zero
  ELSE LET tSize == cnt \div nThr
           left  == cnt % nThr
           nT    == min(cnt, nThr)
           p     == [t \in 0 .. (nT - 1) |->
                       FoldTile(Zero, s, lo + getTileIndex(t, left, tSize),
                                tileSizeWithOffset(t, left, tSize), op)]
       IN FoldPartials(Zero, p, 0, nT, op)

(* ------------------------------- state -------------------------------- *)

VARIABLES
  src,              \* the caller's source array
  worker,           \* the caller's binary callback
  maxThreads,       \* the configured omp_get_max_threads()
  callNo,           \* how many calls of the caller's sequence have returned
  out,              \* the destination buffers of the returned calls
  pc,               \* where the running call is
  nThreads,         \* the worker count of the running call
  nJob,             \* its element count
  dOff,             \* the offset of its d in the caller's dest (exclusiveScan: 1)
  dest,             \* the caller's destination buffer
  result,           \* reduceImpl's result
  phase1reduction,  \* per-tile scratch
  phase2reduction,  \* per-tile running prefix (scan)
  tileSize,
  leftOverJobs,
  nTiles,
  iter,             \* per thread: inner iterations done in the running phase
  tile,             \* the loop variable of the sequential phase 2
  filter,           \* pack, gather: the filter
  pos,              \* pack: the write position
  idx,              \* pack: the loop variable i
  reads,            \* gather: the positions of s read so far
  workerList,       \* pipelines: the unary callbacks of the stages
  stage,            \* mapPipeline: the loop variable j
  hits,             \* map, pipelines: per item, the worker calls made on it
  log,              \* reduce, scan: the accesses of the running parallel phase
  inPlace           \* scan: dest and src are the same buffer

vars == <<src, worker, maxThreads, callNo, out, pc, nThreads, nJob, dOff,
          dest, result, phase1reduction, phase2reduction, tileSize,
          leftOverJobs, nTiles, iter, tile, filter, pos, idx, reads, workerList,
          stage, hits, log, inPlace>>

inputVars == <<src, worker, maxThreads, filter>>
tileVars == <<tileSize, leftOverJobs, nTiles>>
pipeVars == <<workerList, stage, hits>>
traceVars == <<log, inPlace>>
otherVars == <<pos, idx, reads, pipeVars>>

Empty == [x \in {} |-> Zero]

\* The calls the caller makes, in order, on the same src and worker: each
\* with one worker (one = TRUE) or with maxThreads workers.  The in-place
\* inclusiveScan gets a copy of src as both its dest and its src.
Calls ==
  << [fn |-> "reduce",        one |-> TRUE],
     [fn |-> "reduce",        one |-> FALSE],
     [fn |-> "inclusiveScan", one |-> TRUE],
     [fn |-> "inclusiveScan", one |-> FALSE],
     [fn |-> "inclusiveScanInPlace", one |-> FALSE],
     [fn |-> "exclusiveScan", one |-> FALSE] >>

NextCall == Calls[callNo + 1]

Threads(c) == IF c.one THEN 1 ELSE maxThreads

\* scan's s: the same bytes as d when the caller passed one buffer for both.
SrcBuf == IF inPlace THEN dest ELSE src
SrcName == IF inPlace THEN "dest" ELSE "src"

\* The element of s that scan's final phase combines at step i of a tile.
srcIndexBehind(i, tileIndex) == i - 1 + tileIndex

srcIndex(i, tileIndex) == i + tileIndex

\* One access of a tile to a slot of a buffer: dest, src or the scratch
\* arrays phase1reduction (p1) and phase2reduction (p2).
Acc(t, rw, buf, at) == [tile |-> t, rw |-> rw, buf |-> buf, at |-> at]

InitLocals ==
  /\ nThreads = 1
  /\ nJob = 0
  /\ dOff = 0
  /\ dest = Empty
  /\ result = Zero
  /\ phase1reduction = Empty
  /\ phase2reduction = Empty
  /\ tileSize = 0
  /\ leftOverJobs = 0
  /\ nTiles = 0
  /\ iter = Empty
  /\ tile = 0
  /\ pos = 0
  /\ idx = 0
  /\ reads = {}
  /\ stage = 0
  /\ hits = Empty
  /\ log = {}
  /\ inPlace = FALSE

InitFold ==
  /\ src \in Arrays(MaxN)
  /\ worker \in Ops
  /\ workerList = << >>
  /\ maxThreads \in 1 .. MaxThreads
  /\ filter = Empty
  /\ callNo = 0
  /\ out = << >>
  /\ pc = "idle"
  /\ InitLocals

(* ------------------------------ reduce -------------------------------- *)

\* reduce -> reduceImpl up to the parallel region: memset, the n = 0 return,
\* the tile arithmetic and the two callocs.
ReduceCall ==
  /\ pc = "idle"
  /\ callNo < Len(Calls)
  /\ NextCall.fn = "reduce"
  /\ LET T == Threads(NextCall)
         n == Len0(src)
         nT == min(n, T)
     IN /\ nThreads' = T
        /\ nJob' = n
        /\ dOff' = 0
        /\ dest' = [i \in {0} |-> Zero]
        /\ result' = Zero
        /\ IF n = 0
           THEN /\ pc' = "idle"
                /\ callNo' = callNo + 1
                /\ out' = Append(out, dest')
                /\ UNCHANGED <<phase1reduction, tileVars, iter>>
           ELSE /\ pc' = "reduce1"
                /\ tileSize' = n \div T
                /\ leftOverJobs' = n % T
                /\ nTiles' = nT
                /\ phase1reduction' = [t \in 0 .. (nT - 1) |-> Zero]
                /\ iter' = [t \in 0 .. (nT - 1) |-> 0]
                /\ UNCHANGED <<callNo, out>>
  /\ log' = {}
  /\ inPlace' = FALSE
  /\ UNCHANGED <<inputVars, phase2reduction, tile, otherVars>>

\* One iteration of a tile's inner loop in phase 1.
ReduceTile(t) ==
  /\ pc = "reduce1"
  /\ iter[t] < tileSizeWithOffset(t, leftOverJobs, tileSize)
  /\ LET tileIndex == getTileIndex(t, leftOverJobs, tileSize)
     IN /\ phase1reduction' =
             [phase1reduction EXCEPT
                ![t] = Apply(worker, @, src[iter[t] + tileIndex])]
        /\ log' = log \cup {Acc(t, "r", "p1", t), Acc(t, "w", "p1", t),
                            Acc(t, "r", "src", iter[t] + tileIndex)}
  /\ iter' = [iter EXCEPT ![t] = @ + 1]
  /\ UNCHANGED <<inputVars, callNo, out, pc, nThreads, nJob, dOff, dest, result,
                 phase2reduction, tileVars, tile, otherVars, inPlace>>

\* A parallel region that ends without waiting for its tiles.
ReduceBarrierEarly ==
  /\ pc = "reduce1"
  /\ pc' = "reduce2"
  /\ tile' = 0
  /\ UNCHANGED <<inputVars, callNo, out, nThreads, nJob, dOff, dest, result,
                 phase1reduction, phase2reduction, tileVars, iter, otherVars,
                 traceVars>>

\* The end of the parallel region: every tile has finished.
ReduceBarrier ==
  /\ pc = "reduce1"
  /\ \A t \in 0 .. (nTiles - 1) :
       iter[t] = tileSizeWithOffset(t, leftOverJobs, tileSize)
  /\ pc' = "reduce2"
  /\ tile' = 0
  /\ UNCHANGED <<inputVars, callNo, out, nThreads, nJob, dOff, dest, result,
                 phase1reduction, phase2reduction, tileVars, iter, otherVars, traceVars>>

\* One iteration of the sequential phase 2.
ReducePhase2 ==
  /\ pc = "reduce2"
  /\ tile < nTiles
  /\ result' = Apply(worker, result, phase1reduction[tile])
  /\ tile' = tile + 1
  /\ UNCHANGED <<inputVars, callNo, out, pc, nThreads, nJob, dOff, dest,
                 phase1reduction, phase2reduction, tileVars, iter, otherVars, traceVars>>

\* memcpy(dest, result, sizeJob), the frees and the return.
ReduceReturn ==
  /\ pc = "reduce2"
  /\ tile = nTiles
  /\ dest' = [dest EXCEPT ![0] = result]
  /\ out' = Append(out, dest')
  /\ callNo' = callNo + 1
  /\ pc' = "idle"
  /\ UNCHANGED <<inputVars, nThreads, nJob, dOff, result, phase1reduction,
                 phase2reduction, tileVars, iter, tile, otherVars, traceVars>>

(* ------------------------------- scan --------------------------------- *)

\* inclusiveScan / exclusiveScan -> scan up to the first parallel region.
\* exclusiveScan passes dest + 1 and nJob - 1 (size_t).  With more elements
\* asked for than src holds (exclusiveScan of an empty array), memcpy(d, s)
\* already reads and writes outside the buffers: undefined behaviour.
ScanCall ==
  /\ pc = "idle"
  /\ callNo < Len(Calls)
  /\ NextCall.fn \in {"inclusiveScan", "inclusiveScanInPlace", "exclusiveScan"}
  /\ LET T == Threads(NextCall)
         n == Len0(src)
         excl == NextCall.fn = "exclusiveScan"
         same == NextCall.fn = "inclusiveScanInPlace"
         nJ == IF excl THEN SizeSub1(n) ELSE n
         off == IF excl THEN 1 ELSE 0
         nT == min(nJ - 1, T)
         fresh == IF same THEN src ELSE [i \in 0 .. (n - 1) |-> Untouched]
     IN /\ nThreads' = T
        /\ inPlace' = same
        /\ log' = {}
        /\ nJob' = nJ
        /\ dOff' = off
        /\ IF nJ = 0
           THEN /\ dest' = fresh
                /\ pc' = "idle"
                /\ callNo' = callNo + 1
                /\ out' = Append(out, dest')
                /\ UNCHANGED <<phase1reduction, phase2reduction, tileVars, iter>>
           ELSE IF nJ > n
           THEN /\ dest' = fresh
                /\ pc' = "ub"
                /\ UNCHANGED <<callNo, out, phase1reduction, phase2reduction,
                               tileVars, iter>>
           ELSE IF nJ = 1
           THEN /\ dest' = [fresh EXCEPT ![off] = src[0]]
                /\ pc' = "idle"
                /\ callNo' = callNo + 1
                /\ out' = Append(out, dest')
                /\ UNCHANGED <<phase1reduction, phase2reduction, tileVars, iter>>
           ELSE /\ dest' = [fresh EXCEPT ![off] = src[0]]
                /\ pc' = "scan1"
                /\ tileSize' = (nJ - 1) \div T
                /\ leftOverJobs' = (nJ - 1) % T
                /\ nTiles' = nT
                /\ phase1reduction' =
                     [t \in 0 .. (nT - 1) |-> IF t = 0 THEN src[0] ELSE Zero]
                /\ phase2reduction' =
                     [t \in 0 .. (nT - 1) |-> IF t = 0 THEN src[0] ELSE Zero]
                /\ iter' = [t \in 0 .. (nT - 1) |-> 0]
                /\ UNCHANGED <<callNo, out>>
  /\ UNCHANGED <<inputVars, result, tile, otherVars>>

\* Phase 1, tile t < nTiles - 1: the serial reduceImpl of the tile's
\* elements into phase1reduction[t + 1].
ScanPhase1(t) ==
  /\ pc = "scan1"
  /\ t < nTiles - 1
  /\ iter[t] = 0
  /\ LET tileIndex == getTileIndex(t, leftOverJobs, tileSize) + 1
         size == tileSizeWithOffset(t, leftOverJobs, tileSize)
     IN /\ phase1reduction' =
             [phase1reduction EXCEPT ![t + 1] =
                reduceImplValue(SrcBuf, tileIndex, size, worker, 1)]
        /\ log' = log \cup {Acc(t, "w", "p1", t + 1)}
                      \cup {Acc(t, "r", SrcName, k) :
                              k \in tileIndex .. (tileIndex + size - 1)}
  /\ iter' = [iter EXCEPT ![t] = 1]
  /\ UNCHANGED <<inputVars, callNo, out, pc, nThreads, nJob, dOff, dest, result,
                 phase2reduction, tileVars, tile, otherVars, inPlace>>

\* The end of the first parallel region.
ScanBarrier1 ==
  /\ pc = "scan1"
  /\ \A t \in 0 .. (nTiles - 2) : iter[t] = 1
  /\ pc' = "scan2"
  /\ tile' = 1
  /\ UNCHANGED <<inputVars, callNo, out, nThreads, nJob, dOff, dest, result,
                 phase1reduction, phase2reduction, tileVars, iter, otherVars, traceVars>>

\* One iteration of the sequential phase 2.
ScanPhase2 ==
  /\ pc = "scan2"
  /\ tile < nTiles
  /\ phase2reduction' =
       [phase2reduction EXCEPT ![tile] =
          Apply(worker, phase2reduction[tile - 1], phase1reduction[tile])]
  /\ tile' = tile + 1
  /\ UNCHANGED <<inputVars, callNo, out, pc, nThreads, nJob, dOff, dest, result,
                 phase1reduction, tileVars, iter, otherVars, traceVars>>

\* free(phase1reduction) and the start of the final parallel region.
ScanBarrier2 ==
  /\ pc = "scan2"
  /\ tile >= nTiles
  /\ pc' = "scan3"
  /\ iter' = [t \in 0 .. (nTiles - 1) |-> 0]
  /\ log' = {}
  /\ UNCHANGED <<inputVars, callNo, out, nThreads, nJob, dOff, dest, result,
                 phase1reduction, phase2reduction, tileVars, tile, otherVars,
                 inPlace>>

\* Phase 3, tile t: its first element from phase2reduction[t], each later
\* one from the element written just before it.
ScanPhase3(t) ==
  /\ pc = "scan3"
  /\ LET tileIndex == getTileIndex(t, leftOverJobs, tileSize) + 1
         i == iter[t]
     IN /\ i = 0 \/ i < tileSizeWithOffset(t, leftOverJobs, tileSize)
        /\ dest' =
             [dest EXCEPT ![dOff + i + tileIndex] =
                IF i = 0
                THEN Apply(worker, phase2reduction[t],
                           SrcBuf[srcIndex(0, tileIndex)])
                ELSE Apply(worker, dest[dOff + i - 1 + tileIndex],
                           SrcBuf[srcIndex(i, tileIndex)])]
        /\ log' = log \cup {Acc(t, "w", "dest", dOff + i + tileIndex),
                            Acc(t, "r", SrcName, srcIndex(i, tileIndex)),
                            IF i = 0
                            THEN Acc(t, "r", "p2", t)
                            ELSE Acc(t, "r", "dest", dOff + i - 1 + tileIndex)}
  /\ iter' = [iter EXCEPT ![t] = @ + 1]
  /\ UNCHANGED <<inputVars, callNo, out, pc, nThreads, nJob, dOff, result,
                 phase1reduction, phase2reduction, tileVars, tile, otherVars,
                 inPlace>>

\* The end of the final parallel region, free(phase2reduction), the return.
ScanReturn ==
  /\ pc = "scan3"
  /\ \A t \in 0 .. (nTiles - 1) :
       iter[t] >= 1 /\ iter[t] >= tileSizeWithOffset(t, leftOverJobs, tileSize)
  /\ out' = Append(out, dest)
  /\ callNo' = callNo + 1
  /\ pc' = "idle"
  /\ UNCHANGED <<inputVars, nThreads, nJob, dOff, dest, result, phase1reduction,
                 phase2reduction, tileVars, iter, tile, otherVars, traceVars>>

NextFold ==
  \/ ReduceCall
  \/ \E t \in DOMAIN iter : ReduceTile(t)
  \/ ReduceBarrier
  \/ ReducePhase2
  \/ ReduceReturn
  \/ ScanCall
  \/ \E t \in DOMAIN iter : ScanPhase1(t)
  \/ ScanBarrier1
  \/ ScanPhase2
  \/ ScanBarrier2
  \/ \E t \in DOMAIN iter : ScanPhase3(t)
  \/ ScanReturn

SpecFold == InitFold /\ [][NextFold]_vars

(* --------------------- claims on reduce and scan ---------------------- *)

\* The strict left-to-right fold of s[0 .. hi], hi >= 0: no seed, s[0] first.
RECURSIVE StrictFold(_, _, _)
StrictFold(s, hi, op) ==
  IF hi = 0 THEN s[0] ELSE Apply(op, StrictFold(s, hi - 1, op), s[hi])

\* The strict fold of the whole array, the zero-valued element when empty.
StrictFoldAll(s, op) ==
  IF Len0(s) = 0 THEN Zero ELSE StrictFold(s, Len0(s) - 1, op)

\* The positions of the returned calls in out.
CallIndex(fn, one) ==
  CHOOSE k \in 1 .. Len(Calls) : Calls[k] = [fn |-> fn, one |-> one]

Reduce1 == CallIndex("reduce", TRUE)
ReduceT == CallIndex("reduce", FALSE)
Incl1 == CallIndex("inclusiveScan", TRUE)
InclT == CallIndex("inclusiveScan", FALSE)
ExclT == CallIndex("exclusiveScan", FALSE)

Returned(k) == Len(out) >= k

\* C1: every returned reduce (with one worker and with maxThreads workers,
\* whatever the interleaving of the tiles was) left in dest the strict
\* left-to-right fold of src, the zero-valued element for an empty src.
C1_ReduceIsStrictFold ==
  \A k \in {Reduce1, ReduceT} :
    Returned(k) => out[k][0] = StrictFoldAll(src, worker)

\* C2: every returned inclusiveScan of n >= 1 elements left in each dest[i]
\* the strict left-to-right fold of src[0 .. i].
C2_ScanIsRunningFold ==
  \A k \in {Incl1, InclT} :
    Returned(k) =>
      \A i \in DOMAIN src : out[k][i] = StrictFold(src, i, worker)

\* C3: for n >= 2 and 1 <= i < n, exclusiveScan's dest[i] is inclusiveScan's
\* dest[i - 1] (same src, worker and worker count).
C3_ExclusiveIsShiftedInclusive ==
  Returned(ExclT) =>
    \A i \in DOMAIN src : i >= 1 => out[ExclT][i] = out[InclT][i - 1]

\* C4: for n >= 1 the last element of inclusiveScan is the result of reduce
\* (same src, worker and worker count).
C4_ScanLastIsReduce ==
  (Returned(InclT) /\ Len0(src) >= 1) =>
    /\ out[InclT][Len0(src) - 1] = out[ReduceT][0]
    /\ out[Incl1][Len0(src) - 1] = out[Reduce1][0]

\* C5: reduce and inclusiveScan leave the same output with one worker as
\* with maxThreads workers.
C5_OneWorkerSameAsMany ==
  /\ Returned(ReduceT) => out[ReduceT] = out[Reduce1]
  /\ Returned(InclT) => out[InclT] = out[Incl1]

\* The operators of which the zero-valued element is a left identity.
ZeroIsLeftIdentity == \A v \in Values : Apply(worker, Zero, v) = v

\* For the operators with the zero-valued element as left identity, reduce
\* and the scans are the strict folds, with every worker count.
FoldsHoldWithZeroIdentity ==
  ZeroIsLeftIdentity =>
    /\ C1_ReduceIsStrictFold
    /\ C2_ScanIsRunningFold
    /\ C3_ExclusiveIsShiftedInclusive
    /\ C4_ScanLastIsReduce
    /\ C5_OneWorkerSameAsMany

(* ------------------------------ gather -------------------------------- *)

\* #pragma omp for schedule(static) over n iterations on a team of nThr
\* threads: one contiguous chunk per thread, in thread order, the first
\* n % nThr chunks one iteration longer.
chunkLen(t, n, nThr) == (n \div nThr) + (IF t < (n % nThr) THEN 1 ELSE 0)

chunkStartAtZero(t, n, nThr) == 0

chunkStart(t, n, nThr) ==
  LET q == n \div nThr
      r == n % nThr
  IN IF t < r THEN t * (q + 1) ELSE r * (q + 1) + (t - r) * q

\* The bound check letting through an index equal to n.
indexRejectedAboveN(f, n) == f > n

\* if (filter[i] >= (int) nJob): the index the bound check rejects.
indexRejected(f, n) == f >= n

\* memcpy reading the source at the loop index i where s has one.
gatherElemAtLoopIndex(s, i, fi) == IF i \in DOMAIN s THEN s[i] ELSE s[fi]

\* memcpy(&d[i], &s[filter[i]], sizeJob): the element iteration i copies,
\* fi = filter[i] being a position of s.
gatherElem(s, i, fi) == s[fi]

\* The source arrays of gather: n distinct elements (gather only copies
\* elements, their values are opaque to it).
GatherSrc(n) == [i \in 0 .. (n - 1) |-> 10 * (i + 1)]

\* The filters of at most m signed indices for a source of n elements.
Filters(m, n) == UNION {[0 .. (k - 1) -> (-1) .. (n + 2)] : k \in 0 .. m}

InitGather ==
  /\ \E n \in 0 .. MaxN :
       /\ src = GatherSrc(n)
       /\ filter \in Filters(MaxFilter, n)
  /\ worker = "none"
  /\ workerList = << >>
  /\ maxThreads \in 1 .. MaxThreads
  /\ callNo = 0
  /\ out = << >>
  /\ pc = "idle"
  /\ InitLocals

\* gather -> gatherImpl up to the parallel region.
GatherCall ==
  /\ pc = "idle"
  /\ callNo = 0
  /\ nThreads' = maxThreads
  /\ nJob' = Len0(src)
  /\ dest' = [i \in DOMAIN filter |-> Untouched]
  /\ iter' = [t \in 0 .. (maxThreads - 1) |-> 0]
  /\ reads' = {}
  /\ pc' = "gather"
  /\ UNCHANGED <<inputVars, callNo, out, dOff, result, phase1reduction,
                 phase2reduction, tileVars, tile, pos, idx, pipeVars,
                 traceVars>>

\* One iteration of thread t's chunk: the bound check, then the memcpy.  An
\* index the check lets through that is no position of s makes memcpy read
\* outside s: undefined behaviour, here either a crash or any element value.
GatherIter(t) ==
  /\ pc = "gather"
  /\ iter[t] < chunkLen(t, Len0(filter), nThreads)
  /\ LET i == chunkStart(t, Len0(filter), nThreads) + iter[t]
     IN IF indexRejected(filter[i], nJob)
        THEN /\ pc' = "exit"
             /\ UNCHANGED <<dest, iter, reads>>
        ELSE /\ reads' = reads \cup {filter[i]}
             /\ IF filter[i] \in DOMAIN src
                THEN /\ dest' = [dest EXCEPT ![i] = gatherElem(src, i, filter[i])]
                     /\ iter' = [iter EXCEPT ![t] = @ + 1]
                     /\ pc' = pc
                ELSE \/ /\ pc' = "segv"
                        /\ UNCHANGED <<dest, iter>>
                     \/ /\ \E g \in Values : dest' = [dest EXCEPT ![i] = g]
                        /\ iter' = [iter EXCEPT ![t] = @ + 1]
                        /\ pc' = pc
  /\ UNCHANGED <<inputVars, callNo, out, nThreads, nJob, dOff, result,
                 phase1reduction, phase2reduction, tileVars, tile, pos, idx, pipeVars,
                 traceVars>>

\* The end of the parallel region and the return.
GatherReturn ==
  /\ pc = "gather"
  /\ \A t \in DOMAIN iter : iter[t] = chunkLen(t, Len0(filter), nThreads)
  /\ pc' = "returned"
  /\ out' = Append(out, dest)
  /\ callNo' = callNo + 1
  /\ UNCHANGED <<inputVars, nThreads, nJob, dOff, dest, result, phase1reduction,
                 phase2reduction, tileVars, iter, tile, otherVars, traceVars>>

NextGather ==
  \/ GatherCall
  \/ \E t \in DOMAIN iter : GatherIter(t)
  \/ GatherReturn

SpecGather == InitGather /\ [][NextGather]_vars

(* ------------------------------- pack --------------------------------- *)

\* The test keeping only the entries equal to 1.
truthyOnlyOne(f) == f = 1

\* if (filter[i])
truthy(f) == f # 0

\* The int values of a pack filter entry.
FilterInts == {-1, 0, 1}

InitPack ==
  /\ src \in Arrays(MaxN)
  /\ filter \in [DOMAIN src -> FilterInts]
  /\ worker = "none"
  /\ workerList = << >>
  /\ maxThreads = 1
  /\ callNo = 0
  /\ out = << >>
  /\ pc = "idle"
  /\ InitLocals

\* pack up to its loop.
PackCall ==
  /\ pc = "idle"
  /\ callNo = 0
  /\ nJob' = Len0(src)
  /\ dest' = [i \in DOMAIN src |-> Untouched]
  /\ pos' = 0
  /\ idx' = 0
  /\ pc' = "pack"
  /\ UNCHANGED <<inputVars, callNo, out, nThreads, dOff, result, phase1reduction,
                 phase2reduction, tileVars, iter, tile, reads, pipeVars,
                 traceVars>>

\* One iteration of the loop.
PackIter ==
  /\ pc = "pack"
  /\ idx < nJob
  /\ IF truthy(filter[idx])
     THEN /\ dest' = [dest EXCEPT ![pos] = src[idx]]
          /\ pos' = pos + 1
     ELSE UNCHANGED <<dest, pos>>
  /\ idx' = idx + 1
  /\ UNCHANGED <<inputVars, callNo, out, pc, nThreads, nJob, dOff, result,
                 phase1reduction, phase2reduction, tileVars, iter, tile, reads, pipeVars,
                 traceVars>>

\* return pos
PackReturn ==
  /\ pc = "pack"
  /\ idx >= nJob
  /\ pc' = "returned"
  /\ out' = Append(out, dest)
  /\ callNo' = callNo + 1
  /\ UNCHANGED <<inputVars, nThreads, nJob, dOff, dest, result, phase1reduction,
                 phase2reduction, tileVars, iter, tile, otherVars, traceVars>>

NextPack ==
  \/ PackCall
  \/ PackIter
  \/ PackReturn

SpecPack == InitPack /\ [][NextPack]_vars

(* ------------------------- claims on gather --------------------------- *)

\* Every index of the filter is a position of src.
AllValid == \A i \in DOMAIN filter : filter[i] \in DOMAIN src

\* The filter positions holding an index >= n.
InvalidPositions == {i \in DOMAIN filter : filter[i] >= Len0(src)}

\* The dest positions written so far.
Written == {i \in DOMAIN dest : dest[i] # Untouched}

\* The filter holds no negative index.
NoNegative == \A i \in DOMAIN filter : filter[i] >= 0

\* C6: with a filter of valid source positions gather does not fail, and
\* once it has returned dest[i] = src[filter[i]] for every i, whatever the
\* worker count and the interleaving.
C6_GatherValidFilter ==
  (pc \in {"gather", "returned", "exit", "segv"} /\ AllValid) =>
    /\ pc \notin {"exit", "segv"}
    /\ pc = "returned" =>
         \A i \in DOMAIN filter : dest[i] = src[filter[i]]

\* A valid filter that is no identity, gathered by several workers.
C6_Witness ==
  /\ pc = "returned"
  /\ AllValid
  /\ nThreads >= 2
  /\ Len0(filter) >= 3
  /\ filter[0] = 2
  /\ filter[1] = 0

\* C7: with an index >= n in the filter the call never returns normally:
\* the join of the parallel region is never reached (some thread still has
\* an iteration to run, and running the invalid one fails), and without
\* negative indices in the filter the only way the call stops is exit(1).
C7_GatherInvalidFails ==
  (pc \in {"gather", "returned", "exit", "segv"} /\ InvalidPositions # {}) =>
    /\ pc # "returned"
    /\ pc = "gather" =>
         \E t \in DOMAIN iter : iter[t] < chunkLen(t, Len0(filter), nThreads)
    /\ NoNegative => pc # "segv"

\* The call has failed on Scenario C's filter [2, 0, 5] with several workers.
C7_Witness ==
  /\ pc = "exit"
  /\ nThreads >= 2
  /\ Len0(src) = 3
  /\ Len0(filter) = 3
  /\ filter[0] = 2
  /\ filter[1] = 0
  /\ filter[2] = 5

\* C8: gather reads src only at positions 0 .. n-1.
C8_GatherReadsInBounds ==
  \A p \in reads : 0 <= p /\ p < nJob

\* The first filter position holding an index >= n.
FirstInvalid ==
  CHOOSE i \in InvalidPositions : \A j \in InvalidPositions : i <= j

\* C9, as claimed: when gather has failed, every dest entry written is at a
\* position before the first invalid filter position (stated for filters
\* without negative indices, so that no out-of-bounds read is involved).
C9_FailedWritesOnlyPrefix ==
  (pc = "exit" /\ NoNegative) => \A i \in Written : i < FirstInvalid

\* C9, amended: when gather has failed, every dest entry written is at a
\* position whose own filter index passed the bound check (filter[i] < n);
\* with one worker these positions are all before the first invalid one.
C9_FailedWritesOnlyChecked ==
  pc = "exit" =>
    /\ \A i \in Written : filter[i] < nJob
    /\ nThreads = 1 => \A i \in Written : i < FirstInvalid

\* gather has failed with several workers after a write behind the first
\* invalid filter position.
C9_Witness ==
  /\ pc = "exit"
  /\ NoNegative
  /\ nThreads >= 2
  /\ \E i \in Written : i > FirstInvalid

(* -------------------------- claims on pack ---------------------------- *)

\* The elements of s[0 .. hi-1] whose filter entry is not 0, in order.
RECURSIVE Kept(_, _, _)
Kept(s, f, hi) ==
  IF hi = 0 THEN << >>
  ELSE IF f[hi - 1] # 0
       THEN Append(Kept(s, f, hi - 1), s[hi - 1])
       ELSE Kept(s, f, hi - 1)

\* C10: pack returns the number of truthy filter entries and leaves in
\* dest[0 .. count) the source elements whose filter entry is truthy, in
\* source order (so 0 for an all-false filter, and a copy of src for an
\* all-true one); it writes no other dest entry.
C10_PackKeepsTruthyInOrder ==
  pc = "returned" =>
    LET kept == Kept(src, filter, Len0(src))
    IN /\ pos = Cardinality({i \in DOMAIN filter : filter[i] # 0})
       /\ pos = Len(kept)
       /\ \A j \in 0 .. (pos - 1) : dest[j] = kept[j + 1]
       /\ \A j \in DOMAIN dest : j >= pos => dest[j] = Untouched
       /\ (\A i \in DOMAIN filter : filter[i] = 0) => pos = 0
       /\ (\A i \in DOMAIN filter : filter[i] # 0) => dest = src

\* pack has returned after dropping an element between two kept ones, one
\* of them kept by a negative filter entry.
C10_Witness ==
  /\ pc = "returned"
  /\ Len0(src) >= 3
  /\ filter[0] = -1
  /\ filter[1] = 0
  /\ filter[2] = 1
  /\ src[0] # src[2]
  /\ pos = 2

(* ------------------------------ scatter ------------------------------- *)

scatterSlotAtLoopIndex(f, i) == i

\* The slot of d that iteration i writes.
scatterSlot(f, i) == f[i]

\* The filters of exactly n signed indices for a dest of n + 1 slots:
\* valid, repeated and out-of-range indices.
ScatterFilters(n) == [0 .. (n - 1) -> (-1) .. (n + 1)]

InitScatter ==
  /\ \E n \in 0 .. MaxFilter :
       /\ src = GatherSrc(n)
       /\ filter \in ScatterFilters(n)
  /\ worker = "none"
  /\ workerList = << >>
  /\ maxThreads \in 1 .. MaxThreads
  /\ callNo = 0
  /\ out = << >>
  /\ pc = "idle"
  /\ InitLocals

\* scatter up to the parallel region; the team has the default size.
ScatterCall ==
  /\ pc = "idle"
  /\ callNo = 0
  /\ nThreads' = maxThreads
  /\ nJob' = Len0(src)
  /\ dest' = [i \in 0 .. Len0(src) |-> Untouched]
  /\ reads' = {}
  /\ pc' = "scatter"
  /\ UNCHANGED <<inputVars, callNo, out, dOff, result, phase1reduction,
                 phase2reduction, tileVars, iter, tile, pos, idx, pipeVars,
                 traceVars>>

\* Iteration i of the loop.  The loop has no schedule clause: a team of one
\* runs the iterations in order, a larger team in any order.  There is no
\* bound check, so an index that is no slot of d makes memcpy write outside
\* d: undefined behaviour, here a crash or a write that misses d.
ScatterIter(i) ==
  /\ pc = "scatter"
  /\ i \in (0 .. (nJob - 1)) \ reads
  /\ nThreads = 1 => \A k \in 0 .. (i - 1) : k \in reads
  /\ LET slot == scatterSlot(filter, i)
     IN IF slot \in DOMAIN dest
        THEN /\ dest' = [dest EXCEPT ![slot] = src[i]]
             /\ reads' = reads \cup {i}
             /\ pc' = pc
        ELSE \/ /\ pc' = "segv"
                /\ UNCHANGED <<dest, reads>>
             \/ /\ reads' = reads \cup {i}
                /\ UNCHANGED <<dest, pc>>
  /\ UNCHANGED <<inputVars, callNo, out, nThreads, nJob, dOff, result,
                 phase1reduction, phase2reduction, tileVars, iter, tile, pos,
                 idx, pipeVars, traceVars>>

\* The end of the parallel region and the return.
ScatterReturn ==
  /\ pc = "scatter"
  /\ reads = 0 .. (nJob - 1)
  /\ pc' = "returned"
  /\ out' = Append(out, dest)
  /\ callNo' = callNo + 1
  /\ UNCHANGED <<inputVars, nThreads, nJob, dOff, dest, result, phase1reduction,
                 phase2reduction, tileVars, iter, tile, otherVars, traceVars>>

NextScatter ==
  \/ ScatterCall
  \/ \E i \in DOMAIN src : ScatterIter(i)
  \/ ScatterReturn

SpecScatter == InitScatter /\ [][NextScatter]_vars

(* -------------------------- map and pipelines ------------------------- *)

\* The unary callbacks [ v1 = op (v2) ] the callers pass.
UnaryOps == {"inc", "dbl", "sq"}

ApplyU(f, a) ==
  CASE f = "inc" -> (a + 1) % ValMod
    [] f = "dbl" -> (2 * a) % ValMod
    [] f = "sq"  -> (a * a) % ValMod

PipeSrc(n) == [i \in 0 .. (n - 1) |-> i % ValMod]

StageLists == UNION {[1 .. k -> UnaryOps] : k \in 0 .. MaxStages}

\* a - b in size_t.
SizeSub(a, b) == IF a >= b THEN a - b ELSE SizeMax - (b - a) + 1

stageSrcAlwaysSrc(j, s, d) == s

\* The array a stage reads: s for the first stage, d for the later ones.
stageSrc(j, s, d) == IF j = 0 THEN s ELSE d

\* The calls the caller makes, in order, on the same src, worker and
\* workerList.  The in-place map gets a copy of src as its dest and its src.
PipeCalls ==
  <<"map", "mapInPlace", "farm", "mapPipeline", "itemBoundPipeline",
    "sequentialPipeline">>

Running == PipeCalls[callNo + 1]

InitPipe ==
  /\ \E n \in 0 .. MaxN : src = PipeSrc(n)
  /\ worker \in UnaryOps
  /\ workerList \in StageLists
  /\ maxThreads \in 1 .. MaxThreads
  /\ filter = Empty
  /\ callNo = 0
  /\ out = << >>
  /\ pc = "pipeIdle"
  /\ InitLocals

\* What every entry of a call sets up: the caller's dest, the counters of
\* the worker calls, one loop position per thread of the team.
Enter(same, team) ==
  /\ nThreads' = maxThreads
  /\ nJob' = Len0(src)
  /\ inPlace' = same
  /\ dest' = IF same THEN src ELSE [i \in DOMAIN src |-> Untouched]
  /\ hits' = [i \in DOMAIN src |-> 0]
  /\ iter' = [t \in 0 .. (team - 1) |-> 0]
  /\ stage' = 0

\* The return of a call: the caller reads dest.
Leave(d) ==
  /\ out' = Append(out, d)
  /\ callNo' = callNo + 1
  /\ pc' = "pipeIdle"

\* map and farm -> mapImpl with omp_get_max_threads() threads.
MapCall ==
  /\ pc = "pipeIdle"
  /\ callNo < Len(PipeCalls)
  /\ Running \in {"map", "mapInPlace", "farm"}
  /\ Enter(Running = "mapInPlace", maxThreads)
  /\ pc' = "map"
  /\ UNCHANGED <<inputVars, callNo, out, dOff, result, phase1reduction,
                 phase2reduction, tileVars, tile, pos, idx, reads, workerList,
                 log>>

\* mapPipeline up to the first mapImpl; no stage: nothing to do.
MapPipelineCall ==
  /\ pc = "pipeIdle"
  /\ callNo < Len(PipeCalls)
  /\ Running = "mapPipeline"
  /\ Enter(FALSE, maxThreads)
  /\ IF Len(workerList) = 0
     THEN Leave(dest')
     ELSE /\ pc' = "map"
          /\ UNCHANGED <<callNo, out>>
  /\ UNCHANGED <<inputVars, dOff, result, phase1reduction, phase2reduction,
                 tileVars, tile, pos, idx, reads, workerList, log>>

\* The callback of the running mapImpl.
StageWorker == IF Running = "mapPipeline" THEN workerList[stage + 1] ELSE worker

MapChunksDone == \A t \in DOMAIN iter : iter[t] = chunkLen(t, nJob, nThreads)

\* mapImpl: one iteration of thread t's chunk of the static schedule.
MapIter(t) ==
  /\ pc = "map"
  /\ iter[t] < chunkLen(t, nJob, nThreads)
  /\ LET i == chunkStart(t, nJob, nThreads) + iter[t]
         s == stageSrc(stage, IF inPlace THEN dest ELSE src, dest)
     IN /\ dest' = [dest EXCEPT ![i] = ApplyU(StageWorker, s[i])]
        /\ hits' = [hits EXCEPT ![i] = @ + 1]
  /\ iter' = [iter EXCEPT ![t] = @ + 1]
  /\ UNCHANGED <<inputVars, callNo, out, pc, nThreads, nJob, dOff, result,
                 phase1reduction, phase2reduction, tileVars, tile, pos, idx,
                 reads, workerList, stage, traceVars>>

\* mapPipeline: a mapImpl has returned, the loop starts the next one.
MapPipelineNext ==
  /\ pc = "map"
  /\ Running = "mapPipeline"
  /\ MapChunksDone
  /\ stage + 1 < Len(workerList)
  /\ stage' = stage + 1
  /\ iter' = [t \in DOMAIN iter |-> 0]
  /\ UNCHANGED <<inputVars, callNo, out, pc, nThreads, nJob, dOff, dest, result,
                 phase1reduction, phase2reduction, tileVars, tile, pos, idx,
                 reads, workerList, hits, traceVars>>

\* The last mapImpl has returned: the call returns.
MapReturn ==
  /\ pc = "map"
  /\ MapChunksDone
  /\ Running = "mapPipeline" => stage + 1 >= Len(workerList)
  /\ Leave(dest)
  /\ UNCHANGED <<inputVars, nThreads, nJob, dOff, dest, result, phase1reduction,
                 phase2reduction, tileVars, iter, tile, otherVars, traceVars>>

\* itemBoundPipeline up to the parallel region; no stage: nothing to do.
ItemBoundCall ==
  /\ pc = "pipeIdle"
  /\ callNo < Len(PipeCalls)
  /\ Running = "itemBoundPipeline"
  /\ Enter(FALSE, maxThreads)
  /\ IF Len(workerList) = 0
     THEN Leave(dest')
     ELSE /\ pc' = "item"
          /\ UNCHANGED <<callNo, out>>
  /\ UNCHANGED <<inputVars, dOff, result, phase1reduction, phase2reduction,
                 tileVars, tile, pos, idx, reads, workerList, log>>

\* One worker call of thread t: iter[t] counts the calls the thread has
\* made, nWorkers for each item of its chunk.
ItemBoundIter(t) ==
  /\ pc = "item"
  /\ iter[t] < chunkLen(t, nJob, nThreads) * Len(workerList)
  /\ LET i == chunkStart(t, nJob, nThreads) + (iter[t] \div Len(workerList))
         j == iter[t] % Len(workerList)
     IN /\ dest' = [dest EXCEPT
                      ![i] = ApplyU(workerList[j + 1], stageSrc(j, src, dest)[i])]
        /\ hits' = [hits EXCEPT ![i] = @ + 1]
  /\ iter' = [iter EXCEPT ![t] = @ + 1]
  /\ UNCHANGED <<inputVars, callNo, out, pc, nThreads, nJob, dOff, result,
                 phase1reduction, phase2reduction, tileVars, tile, pos, idx,
                 reads, workerList, stage, traceVars>>

\* The end of the parallel region and the return.
ItemBoundReturn ==
  /\ pc = "item"
  /\ \A t \in DOMAIN iter :
       iter[t] = chunkLen(t, nJob, nThreads) * Len(workerList)
  /\ Leave(dest)
  /\ UNCHANGED <<inputVars, nThreads, nJob, dOff, dest, result, phase1reduction,
                 phase2reduction, tileVars, iter, tile, otherVars, traceVars>>

\* sequentialPipeline up to the tasks of the first round.  The outer loop
\* runs nJob - nWorkers (size_t) rounds: none when the two are equal, and the
\* call returns with dest as it was.  Otherwise a round creates the tasks
\* j = 0 .. nWorkers, since j <= min(j, nWorkers) holds up to j = nWorkers;
\* with nJob = 0 the first task already divides by zero in j % nJob.
SequentialPipelineCall ==
  /\ pc = "pipeIdle"
  /\ callNo < Len(PipeCalls)
  /\ Running = "sequentialPipeline"
  /\ Enter(FALSE, Len(workerList) + 1)
  /\ IF Len(workerList) = 0 \/ SizeSub(Len0(src), Len(workerList)) = 0
     THEN Leave(dest')
     ELSE /\ pc' = IF Len0(src) = 0 THEN "ub" ELSE "tasks"
          /\ UNCHANGED <<callNo, out>>
  /\ UNCHANGED <<inputVars, dOff, result, phase1reduction, phase2reduction,
                 tileVars, tile, pos, idx, reads, workerList, log>>

\* One step of task j, in any order with the other tasks of the round.  The
\* task j = nWorkers reads workerList[nWorkers], past the end of the list:
\* undefined behaviour.  A task j < nWorkers runs mapImpl(d, j % nJob == 0 ?
\* s : d, ...), here item by item; an element of d that no stage has written
\* yet is an uninitialised read, giving any value.
SequentialPipelineTask(j) ==
  /\ pc = "tasks"
  /\ IF j >= Len(workerList)
     THEN /\ pc' = "ub"
          /\ UNCHANGED <<dest, hits, iter>>
     ELSE /\ iter[j] < nJob
          /\ LET i == iter[j]
                 s == IF j % nJob = 0 THEN src ELSE dest
             IN /\ IF s[i] = Untouched
                   THEN \E g \in Values : dest' = [dest EXCEPT ![i] = g]
                   ELSE dest' = [dest EXCEPT
                                   ![i] = ApplyU(workerList[j + 1], s[i])]
                /\ hits' = [hits EXCEPT ![i] = @ + 1]
          /\ iter' = [iter EXCEPT ![j] = @ + 1]
          /\ pc' = pc
  /\ UNCHANGED <<inputVars, callNo, out, nThreads, nJob, dOff, result,
                 phase1reduction, phase2reduction, tileVars, tile, pos, idx,
                 reads, workerList, stage, traceVars>>

NextPipe ==
  \/ MapCall
  \/ MapPipelineCall
  \/ \E t \in DOMAIN iter : MapIter(t)
  \/ MapPipelineNext
  \/ MapReturn
  \/ ItemBoundCall
  \/ \E t \in DOMAIN iter : ItemBoundIter(t)
  \/ ItemBoundReturn
  \/ SequentialPipelineCall
  \/ \E j \in DOMAIN iter : SequentialPipelineTask(j)

SpecPipe == InitPipe /\ [][NextPipe]_vars

(* ----------------- the phased skeletons side by side ------------------ *)

\* reduce, the scans and the pipelines, each caller with its own sequence
\* of calls.
InitPhases == InitFold \/ InitPipe

NextPhases == NextFold \/ NextPipe

SpecPhases == InitPhases /\ [][NextPhases]_vars

(* ------------------- claims on the scan base cases -------------------- *)

\* C13: with n = 0 inclusiveScan and exclusiveScan are no-ops: the call
\* enters no phase (so the operator is never invoked), has no undefined
\* behaviour, and returns with no element of dest written.
C13_EmptyScanIsNoOp ==
  Len0(src) = 0 =>
    /\ pc \notin {"ub", "scan1", "scan2", "scan3"}
    /\ \A k \in {Incl1, InclT, ExclT} : Returned(k) => out[k] = Empty

(* ------------------------- claims on the tiles ------------------------ *)

\* A call is inside its tiled part.
InReduceTiles == pc \in {"reduce1", "reduce2"}
InScanTiles == pc \in {"scan1", "scan2", "scan3"}

\* The number of items the running call tiles, and the index of the first:
\* reduce tiles [0, n), scan tiles [1, n).
TiledItems == IF InScanTiles THEN nJob - 1 ELSE nJob
TiledBase == IF InScanTiles THEN 1 ELSE 0

\* The tiles as the running call computes them.
CodeTileStart(t) == TiledBase + getTileIndex(t, leftOverJobs, tileSize)
CodeTileLen(t) == tileSizeWithOffset(t, leftOverJobs, tileSize)

\* The tiles of the contract: nTiles = min(items, workers),
\* tileSize = items / nTiles, leftover = items % nTiles.
ContractNTiles == min(TiledItems, nThreads)
ContractTileSize == TiledItems \div ContractNTiles
ContractLeftover == TiledItems % ContractNTiles
ContractTileLen(t) == ContractTileSize + (IF t < ContractLeftover THEN 1 ELSE 0)
ContractTileStart(t) ==
  TiledBase +
    (IF t < ContractLeftover
     THEN t * (ContractTileSize + 1)
     ELSE ContractLeftover * (ContractTileSize + 1)
            + (t - ContractLeftover) * ContractTileSize)

\* C14: the tiles of reduce over [0, n) and of scan over [1, n) are those of
\* the contract: min(items, T) of them, contiguous, in index order, disjoint
\* and covering the range, with lengths differing by at most one and
\* exactly the first leftover tiles one element longer.
C14_TilesPartitionRange ==
  (InReduceTiles \/ InScanTiles) =>
    /\ nTiles = ContractNTiles
    /\ \A t \in 0 .. (nTiles - 1) :
         /\ CodeTileStart(t) = ContractTileStart(t)
         /\ CodeTileLen(t) = ContractTileLen(t)
         /\ CodeTileLen(t) >= 1
         /\ (CodeTileLen(t) = ContractTileSize + 1) <=> (t < ContractLeftover)
         /\ t = 0 => CodeTileStart(t) = TiledBase
         /\ t > 0 => CodeTileStart(t) = CodeTileStart(t - 1) + CodeTileLen(t - 1)
         /\ t = nTiles - 1 =>
              CodeTileStart(t) + CodeTileLen(t) = TiledBase + TiledItems
    /\ \A t, u \in 0 .. (nTiles - 1) :
         /\ CodeTileLen(t) - CodeTileLen(u) <= 1
         /\ t < u => CodeTileStart(t) + CodeTileLen(t) <= CodeTileStart(u)

\* A scan whose first tile has the extra element, and a reduce with fewer
\* items than workers (where the code's tileSize is 0).
C14_Witness ==
  \/ /\ pc = "scan3"
     /\ nTiles >= 2
     /\ leftOverJobs >= 1
     /\ CodeTileLen(0) = CodeTileLen(1) + 1
  \/ /\ pc = "reduce1"
     /\ nJob >= 2
     /\ nJob < nThreads

(* -------------------- claims on the running prefix -------------------- *)

\* C19: when phase 2 of scan has finished, the running-prefix slot of every
\* tile t is the strict left-to-right fold of the source elements before
\* the tile's first element (src[0] alone for tile 0).
C19_RunningPrefixIsFold ==
  pc = "scan3" =>
    \A t \in 0 .. (nTiles - 1) :
      phase2reduction[t] =
        StrictFold(src, getTileIndex(t, leftOverJobs, tileSize), worker)

\* The same for the operators with the zero-valued element as left identity.
RunningPrefixHoldsWithZeroIdentity ==
  ZeroIsLeftIdentity => C19_RunningPrefixIsFold


(* ------------------ claims on the tiles' accesses --------------------- *)

InParallelPhase == pc \in {"reduce1", "scan1", "scan3"}

\* The tiles that have written slot at of buffer buf in the running phase.
Writers(buf, at) ==
  {a.tile : a \in {b \in log : b.rw = "w" /\ b.buf = buf /\ b.at = at}}

PhaseComplete ==
  \/ pc = "reduce1" /\ ENABLED ReduceBarrier
  \/ pc = "scan1" /\ ENABLED ScanBarrier1
  \/ pc = "scan3" /\ ENABLED ScanReturn

\* C17: in reduce and scan, during a parallel phase no dest or scratch slot
\* is touched by two different tiles unless both only read it; once the
\* phase is complete each scratch slot of reduce's phase 1, each scratch slot
\* 1 .. nTiles - 1 of scan's phase 1 and each dest index of scan's phase 3
\* has been written by exactly one tile.
C17_TilesWriteDisjointSlots ==
  InParallelPhase =>
    /\ \A a, b \in log :
         (a.tile # b.tile /\ a.buf = b.buf /\ a.at = b.at /\ a.buf # "src")
           => (a.rw = "r" /\ b.rw = "r")
    /\ PhaseComplete =>
         /\ pc = "reduce1" =>
              \A t \in 0 .. (nTiles - 1) : Writers("p1", t) = {t}
         /\ pc = "scan1" =>
              \A t \in 1 .. (nTiles - 1) : Writers("p1", t) = {t - 1}
         /\ pc = "scan3" =>
              \A k \in 1 .. (nJob - 1) :
                Cardinality(Writers("dest", dOff + k)) = 1

C17_Witness ==
  /\ pc = "scan3"
  /\ PhaseComplete
  /\ nTiles >= 2
  /\ leftOverJobs >= 1
  /\ inPlace
  /\ \E a \in log : a.rw = "r" /\ a.buf = "dest" /\ a.tile = 1

(* ------------------- claims on the in-place scan ---------------------- *)

InclIP == CallIndex("inclusiveScanInPlace", FALSE)

\* C20: inclusiveScan with dest and src the same buffer returns the contents
\* the call with disjoint buffers returns, and while it runs every position
\* its final phase has not written yet still holds the source element.
C20_InPlaceScanSameAsDisjoint ==
  /\ Returned(InclIP) => out[InclIP] = out[InclT]
  /\ (inPlace /\ pc \in {"scan1", "scan2"}) => dest = src
  /\ (inPlace /\ pc = "scan3") =>
       \A t \in 0 .. (nTiles - 1) :
         \A i \in iter[t] .. (tileSizeWithOffset(t, leftOverJobs, tileSize) - 1) :
           LET k == srcIndex(i, getTileIndex(t, leftOverJobs, tileSize) + 1)
           IN dest[k] = src[k]

C20_Witness ==
  /\ Returned(InclIP)
  /\ Len0(src) >= 3
  /\ maxThreads >= 2
  /\ out[InclIP] # src

(* -------------------------- claims on scatter ------------------------- *)

ScatterValid == \A i \in DOMAIN filter : filter[i] \in 0 .. nJob

ScatterDistinct ==
  \A i, k \in DOMAIN filter : i # k => filter[i] # filter[k]

ScatterIdentity == \A i \in DOMAIN filter : filter[i] = i

\* C11: when scatter has returned and the indices of the filter are valid
\* and pairwise distinct slots of dest, dest[filter[i]] = src[i] for every
\* i, whatever the order of the iterations; with the identity permutation
\* dest holds src.  Such a filter never makes the call crash.
C11_ScatterDistinctFilter ==
  (ScatterValid /\ ScatterDistinct) =>
    /\ pc # "segv"
    /\ pc = "returned" =>
         /\ \A i \in DOMAIN filter : dest[filter[i]] = src[i]
         /\ ScatterIdentity => \A i \in DOMAIN src : dest[i] = src[i]

C11_Witness ==
  /\ pc = "returned"
  /\ ScatterValid
  /\ ScatterDistinct
  /\ ~ScatterIdentity
  /\ nJob >= 3
  /\ nThreads >= 2

(* --------------------- claims on map and pipelines -------------------- *)

PipeCallIndex(fn) == CHOOSE k \in 1 .. Len(PipeCalls) : PipeCalls[k] = fn

Map == PipeCallIndex("map")
MapInPlace == PipeCallIndex("mapInPlace")
Farm == PipeCallIndex("farm")
MapPipe == PipeCallIndex("mapPipeline")
ItemBound == PipeCallIndex("itemBoundPipeline")
SeqPipe == PipeCallIndex("sequentialPipeline")

\* The call that returned last, before the next one starts.
JustReturned(k) == pc = "pipeIdle" /\ callNo = k

Mapped(f) == [i \in DOMAIN src |-> ApplyU(f, src[i])]

\* The stages of ws applied to v in list order, one after the other.
RECURSIVE ApplyStages(_, _)
ApplyStages(ws, v) ==
  IF ws = << >> THEN v ELSE ApplyStages(Tail(ws), ApplyU(Head(ws), v))

Piped == [i \in DOMAIN src |-> ApplyStages(workerList, src[i])]

\* C15: every returned map, with dest apart from src or the same buffer,
\* left worker(src[i]) in dest[i] for every i; while it runs no index has
\* been processed twice and when it returns each has been processed once.
C15_MapAppliesWorkerOnce ==
  /\ Returned(Map) => out[Map] = Mapped(worker)
  /\ Returned(MapInPlace) => out[MapInPlace] = Mapped(worker)
  /\ (pc = "map" /\ Running \in {"map", "mapInPlace"}) =>
       \A i \in DOMAIN hits : hits[i] <= 1
  /\ (JustReturned(Map) \/ JustReturned(MapInPlace)) =>
       \A i \in DOMAIN hits : hits[i] = 1

C15_Witness ==
  /\ JustReturned(MapInPlace)
  /\ nJob >= 3
  /\ nThreads >= 2
  /\ out[MapInPlace] # src
  /\ out[Map] = out[MapInPlace]

\* C12: with at least one stage, every returned mapPipeline and every
\* returned itemBoundPipeline left in dest the stages applied in list order
\* to each src[i]; every returned farm left worker(src[i]); and when the
\* stage list is the farm's worker alone the three buffers are equal.
C12_PipelinesAgreeWithSequential ==
  Len(workerList) >= 1 =>
    /\ Returned(Farm) => out[Farm] = Mapped(worker)
    /\ Returned(MapPipe) => out[MapPipe] = Piped
    /\ Returned(ItemBound) => out[ItemBound] = Piped
    /\ (Returned(ItemBound) /\ workerList = <<worker>>) =>
         out[Farm] = out[MapPipe] /\ out[MapPipe] = out[ItemBound]

C12_Witness ==
  /\ Returned(ItemBound)
  /\ Len(workerList) = 2
  /\ Len0(src) >= 3
  /\ maxThreads >= 2
  /\ out[ItemBound] # Mapped(workerList[1])
  /\ out[ItemBound] # Mapped(workerList[2])
  /\ out[ItemBound] # [i \in DOMAIN src |->
                         ApplyU(workerList[1], ApplyU(workerList[2], src[i]))]

\* C16: with at least one stage, every returned sequentialPipeline left in
\* dest the stages applied in list order to each src[i].
C16_SequentialPipelineAppliesStages ==
  (Len(workerList) >= 1 /\ Returned(SeqPipe)) => out[SeqPipe] = Piped

\* C16 (what the code does): sequentialPipeline returns only with no stage
\* or with as many stages as items, and then without having touched dest;
\* every other call reaches undefined behaviour.
SequentialPipelineReturnsUntouched ==
  /\ Returned(SeqPipe) =>
       /\ Len(workerList) \in {0, Len0(src)}
       /\ \A i \in DOMAIN src : out[SeqPipe][i] = Untouched
  /\ pc = "ub" => Len(workerList) \notin {0, Len0(src)}

(* ------------------------ claims on the barriers ---------------------- *)

ReduceTilesFinished ==
  \A t \in 0 .. (nTiles - 1) :
    iter[t] = tileSizeWithOffset(t, leftOverJobs, tileSize)

ScanPhase1Finished == \A t \in 0 .. (nTiles - 2) : iter[t] = 1

ScanPhase3Finished ==
  \A t \in 0 .. (nTiles - 1) :
    iter[t] = tileSizeWithOffset(t, leftOverJobs, tileSize)

\* The items the running mapImpl of mapPipeline has processed.
StageDone ==
  UNION {chunkStart(t, nJob, nThreads) ..
           (chunkStart(t, nJob, nThreads) + iter[t] - 1) : t \in DOMAIN iter}

\* C18: reduce is in its phase 2 only with every phase-1 tile finished; scan
\* is in its phase 2 only with every phase-1 tile finished and in its phase
\* 3 only with phase 2 finished; while stage j of mapPipeline runs, every
\* item has had exactly the stages before j, plus stage j if this stage has
\* processed it; and a reduce, a scan or a mapPipeline that went through its
\* phases has returned only with all tiles, all phase-2 steps and all stages
\* finished.
C18_PhasesSeparatedByBarriers ==
  /\ pc = "reduce2" => ReduceTilesFinished
  /\ pc = "scan2" => ScanPhase1Finished
  /\ pc = "scan3" => tile = nTiles
  /\ (pc = "map" /\ Running = "mapPipeline") =>
       \A i \in DOMAIN hits :
         hits[i] = stage + (IF i \in StageDone THEN 1 ELSE 0)
  /\ (pc = "idle" /\ callNo \in {Reduce1, ReduceT} /\ nJob >= 1) =>
       ReduceTilesFinished /\ tile = nTiles
  /\ (pc = "idle" /\ callNo \in {Incl1, InclT, InclIP, ExclT} /\ nJob >= 2) =>
       ScanPhase3Finished /\ tile = nTiles
  /\ JustReturned(MapPipe) =>
       \A i \in DOMAIN hits : hits[i] = Len(workerList)

C18_Witness ==
  /\ pc = "map"
  /\ Running = "mapPipeline"
  /\ stage = 1
  /\ nThreads >= 2
  /\ \E i, k \in DOMAIN hits : hits[i] = 1 /\ hits[k] = 2
=============================================================================
